---- MODULE Spec2Model ----
(***************************************************************************)
(* khal-notify (src/main.rs): one run of the program.  The main thread     *)
(* parses its arguments, resolves the target time, asks khal for the       *)
(* events at that time, drops all-day events, spawns one thread per        *)
(* remaining event and joins the threads in order.  Each thread formats    *)
(* its event and runs notify-send.                                         *)
(*                                                                         *)
(* A string is a sequence of code points; a code point is written as a     *)
(* one-character TLA+ string, except the named ones below.                 *)
(***************************************************************************)
EXTENDS Integers, Sequences, FiniteSets, TLC

(***************************************************************************)
(* Bounds of the model.                                                    *)
(***************************************************************************)
\* a khal description is a concatenation of at most MaxPieces pieces
MaxPieces == 3
\* khal reports at most MaxEvents events in the multi-event calendars
MaxEvents == 2
\* the --desc-length argument ranges over 0..MaxBudget
MaxBudget == 2
\* width in bits given to the u64 the minute offset is parsed into and multiplied
\* in; the program's is 64, beyond the integers TLC computes with
U64_BITS == 16

Min(a, b) == IF a < b THEN a ELSE b
Max(a, b) == IF a < b THEN b ELSE a
SetMax(S) == CHOOSE x \in S : \A y \in S : y <= x
Range(s) == {s[i] : i \in 1..Len(s)}

RECURSIVE Concat(_)
\* collect::<String>() of a sequence of string slices
Concat(ss) == IF ss = <<>> THEN <<>> ELSE Head(ss) \o Concat(Tail(ss))

(***************************************************************************)
(* Code points.                                                            *)
(***************************************************************************)
\* U+20AC EURO SIGN: 3 bytes of UTF-8, its own grapheme cluster, not a word character
EUR == "EUR"
\* U+0301 COMBINING ACUTE ACCENT: 2 bytes, Grapheme_Extend, a word character (Mn)
ACUTE == "ACUTE"
\* U+000A LINE FEED
LF == "\n"

\* U+0022 QUOTATION MARK, U+005C REVERSE SOLIDUS, U+0060 GRAVE ACCENT
DQUOTE == "DQUOTE"
BACKSLASH == "BACKSLASH"
GRAVE == "GRAVE"

\* the printable ASCII code points, 0x20 .. 0x7E in order
AsciiPrintable ==
  << " ", "!", DQUOTE, "#", "$", "%", "&", "'", "(", ")", "*", "+", ",", "-", ".", "/",
     "0", "1", "2", "3", "4", "5", "6", "7", "8", "9", ":", ";", "<", "=", ">", "?",
     "@", "A", "B", "C", "D", "E", "F", "G", "H", "I", "J", "K", "L", "M", "N", "O",
     "P", "Q", "R", "S", "T", "U", "V", "W", "X", "Y", "Z", "[", BACKSLASH, "]", "^", "_",
     GRAVE, "a", "b", "c", "d", "e", "f", "g", "h", "i", "j", "k", "l", "m", "n", "o",
     "p", "q", "r", "s", "t", "u", "v", "w", "x", "y", "z", "{", "|", "}", "~" >>

CodePoints == Range(AsciiPrintable) \cup {LF, EUR, ACUTE}

\* the UTF-8 encoding of each code point
Utf8 ==
  [c \in CodePoints |->
     IF c = EUR THEN <<226, 130, 172>>
     ELSE IF c = ACUTE THEN <<204, 129>>
     ELSE IF c = LF THEN <<10>>
     ELSE <<31 + (CHOOSE i \in 1..Len(AsciiPrintable) : AsciiPrintable[i] = c)>>]

Digits == {c \in Range(AsciiPrintable) : Utf8[c][1] \in 48..57}
Letters == {c \in Range(AsciiPrintable) : Utf8[c][1] \in (65..90) \cup (97..122)}
Alnum == Letters \cup Digits

\* str::len(): the length in bytes
ByteLen(s) == Len(Concat([i \in 1..Len(s) |-> Utf8[s[i]]]))
Utf8Bytes(s) == Concat([i \in 1..Len(s) |-> Utf8[s[i]]])

RECURSIVE BytesLess(_, _)
BytesLess(x, y) ==
  IF y = <<>> THEN FALSE
  ELSE IF x = <<>> THEN TRUE
  ELSE IF x[1] # y[1] THEN x[1] < y[1]
  ELSE BytesLess(Tail(x), Tail(y))

\* Ord for str: byte-wise lexicographic
StrLess(a, b) == BytesLess(Utf8Bytes(a), Utf8Bytes(b))

(***************************************************************************)
(* Extended grapheme clusters (unicode_segmentation, graphemes(true)),     *)
(* for the code points above: no break before a Grapheme_Extend code       *)
(* point (GB9), except after a control (GB4) and at the start (GB1).       *)
(***************************************************************************)
IsExtend(c) == c = ACUTE
IsControl(c) == c = LF

\* length in code points of the first cluster of the non-empty string s
ClusterLen(s) ==
  IF IsControl(s[1]) THEN 1
  ELSE CHOOSE k \in 1..Len(s) :
         /\ \A j \in 2..k : IsExtend(s[j])
         /\ k = Len(s) \/ ~IsExtend(s[k + 1])

RECURSIVE Graphemes(_)
Graphemes(s) ==
  IF s = <<>> THEN <<>>
  ELSE LET n == ClusterLen(s)
       IN  <<SubSeq(s, 1, n)>> \o Graphemes(SubSeq(s, n + 1, Len(s)))

\* Iterator::take(n) and what by_ref() leaves behind after it
Take(xs, n) == SubSeq(xs, 1, Min(n, Len(xs)))
Drop(xs, n) == SubSeq(xs, Min(n, Len(xs)) + 1, Len(xs))

(***************************************************************************)
(* Regular expressions (the regex crate).                                  *)
(*                                                                         *)
(* A --strip-regex pattern of the model is a string of literal code points *)
(* and parentheses; Regex::new fails on unbalanced parentheses and         *)
(* otherwise yields the regex that matches the pattern's text literally.   *)
(***************************************************************************)
RECURSIVE ParenDepthOk(_, _)
ParenDepthOk(p, depth) ==
  IF p = <<>> THEN depth = 0
  ELSE IF Head(p) = "(" THEN ParenDepthOk(Tail(p), depth + 1)
  ELSE IF Head(p) = ")" THEN depth > 0 /\ ParenDepthOk(Tail(p), depth - 1)
  ELSE ParenDepthOk(Tail(p), depth)

\* Regex::new(p): Ok(regex) or Err
RegexNew(p) == [ok |-> ParenDepthOk(p, 0), lit |-> SelectSeq(p, LAMBDA c : c \notin {"(", ")"})]

RECURSIVE ReplaceAll(_, _)
\* regex.replace_all(d, ""): every leftmost non-overlapping match removed
ReplaceAll(d, lit) ==
  IF lit = <<>> \/ Len(d) < Len(lit) THEN d
  ELSE IF SubSeq(d, 1, Len(lit)) = lit
       THEN ReplaceAll(SubSeq(d, Len(lit) + 1, Len(d)), lit)
       ELSE <<Head(d)>> \o ReplaceAll(Tail(d), lit)

\* URL_REGEX, whose parts are, in order:
\*   (https?://(www\.)?)?               optional scheme      (SchemeEnds)
\*   [-a-zA-Z0-9@:%._\+~#=]{1,256}      host, HostClass      (HostEnd)
\*   \.[a-zA-Z0-9()]{1,6}\b             dot, TldClass, \b    (TldLen)
\*   [-a-zA-Z0-9()@:%_\+.~#?&//=] star  path, PathClass      (HostEnd)
\* matched as the regex crate does: leftmost start, then the first match in
\* the priority order of the greedy quantifiers.
HostClass == Alnum \cup {"-", "@", ":", "%", ".", "_", "+", "~", "#", "="}
TldClass == Alnum \cup {"(", ")"}
PathClass == Alnum \cup {"-", "(", ")", "@", ":", "%", "_", "+", ".", "~", "#", "?", "&", "/", "="}
\* \w of the regex crate (Unicode): letters, marks, digits, connector punctuation
IsWord(c) == c \in Alnum \cup {"_", ACUTE}

HOST_MAX == 256
TLD_MAX == 6

StartsWith(s, i, lit) ==
  /\ i + Len(lit) - 1 <= Len(s)
  /\ SubSeq(s, i, i + Len(lit) - 1) = lit

\* the longest run (at most limit) of code points of Class starting at position p
RunLenUpTo(s, p, Class, limit) ==
  CHOOSE n \in 0..limit :
    /\ \A q \in p..(p + n - 1) : s[q] \in Class
    /\ n = limit \/ s[p + n] \notin Class

\* a greedy Class{0,cap} at position p: the number of code points it takes
RunLen(s, p, Class, cap) == RunLenUpTo(s, p, Class, Max(0, Min(cap, Len(s) - p + 1)))

\* the longest of the lengths S a greedy quantifier can take, 0 when there is none
Longest(S) == IF S = {} THEN 0 ELSE SetMax(S)

\* \b between positions p-1 and p
WordBoundary(s, p) ==
  LET before == p - 1 \in 1..Len(s) /\ IsWord(s[p - 1])
      after == p \in 1..Len(s) /\ IsWord(s[p])
  IN  before # after

\* the positions after (https?://(www\.)?)? tried at i, most preferred first
SchemeEnds(s, i) ==
  LET AfterS(j) ==
        IF StartsWith(s, j, <<":", "/", "/">>)
        THEN (IF StartsWith(s, j + 3, <<"w", "w", "w", ".">>) THEN <<j + 7>> ELSE <<>>)
             \o <<j + 3>>
        ELSE <<>>
  IN  (IF StartsWith(s, i, <<"h", "t", "t", "p">>)
       THEN (IF StartsWith(s, i + 4, <<"s">>) THEN AfterS(i + 5) ELSE <<>>) \o AfterS(i + 4)
       ELSE <<>>)
      \o <<i>>

\* [a-zA-Z0-9()]{1,6}\b at p: the length taken, 0 when it does not match
TldLen(s, p) == Longest({t \in 1..RunLen(s, p, TldClass, TLD_MAX) : WordBoundary(s, p + t)})

\* the path class, zero or more times, at p: the position after it
PathEnd(s, p) == p + RunLen(s, p, PathClass, Len(s))

\* the match whose host takes k code points from j: the position after it, 0 when k = 0
HostEndAt(s, j, k) == IF k = 0 THEN 0 ELSE PathEnd(s, j + k + 1 + TldLen(s, j + k + 1))

\* the pattern after the scheme group at j: the position after the match, 0 when none
HostEnd(s, j) ==
  HostEndAt(s, j, Longest({k \in 1..RunLen(s, j, HostClass, HOST_MAX) :
                              /\ j + k <= Len(s)
                              /\ s[j + k] = "."
                              /\ TldLen(s, j + k + 1) > 0}))

\* the first element above 0 of a sequence, 0 when there is none
FirstMatch(ends) == IF \A k \in 1..Len(ends) : ends[k] = 0 THEN 0
                    ELSE ends[CHOOSE k \in 1..Len(ends) : ends[k] > 0 /\ \A h \in 1..(k - 1) : ends[h] = 0]

HostEnds(s, js) == [k \in 1..Len(js) |-> HostEnd(s, js[k])]

\* the match starting at i: the position after it, 0 when there is none
MatchEnd(s, i) == FirstMatch(HostEnds(s, SchemeEnds(s, i)))

RECURSIVE FindFrom(_, _)
\* the matches from position i on, given that the match starting at i ends before e
FindNext(s, i, e) ==
  IF e = 0 THEN FindFrom(s, i + 1)
  ELSE <<SubSeq(s, i, e - 1)>> \o FindFrom(s, e)

\* the non-overlapping matches found scanning from position i
FindFrom(s, i) == IF i > Len(s) THEN <<>> ELSE FindNext(s, i, MatchEnd(s, i))

\* url_regex.captures_iter(text), capture group 0 of each
captures_iter(text) == FindFrom(text, 1)

(***************************************************************************)
(* find_links and the formatting done by each thread.                      *)
(***************************************************************************)
RECURSIVE InsertSorted(_, _)
InsertSorted(x, xs) ==
  IF xs = <<>> THEN <<x>>
  ELSE IF StrLess(Head(xs), x) THEN <<Head(xs)>> \o InsertSorted(x, Tail(xs))
  ELSE <<x>> \o xs

RECURSIVE sort_unstable(_)
\* slice::sort_unstable() on strings: equal elements are indistinguishable
sort_unstable(xs) == IF xs = <<>> THEN <<>> ELSE InsertSorted(Head(xs), sort_unstable(Tail(xs)))

RECURSIVE dedup(_)
\* Vec::dedup(): consecutive repeated elements removed
dedup(xs) ==
  IF Len(xs) < 2 THEN xs
  ELSE IF xs[1] = xs[2] THEN dedup(Tail(xs))
  ELSE <<Head(xs)>> \o dedup(Tail(xs))

\* format!("<a href=\"{}\"></a>", url)
LinkFragment(url) ==
  <<"<", "a", " ", "h", "r", "e", "f", "=", DQUOTE>> \o url \o <<DQUOTE, ">", "<", "/", "a", ">">>

\* url_matches.iter().map(|url| format!(..)).collect()
LinkFragments(url_matches) == [i \in 1..Len(url_matches) |-> LinkFragment(url_matches[i])]

\* find_links with the dedup() call left out
find_links_no_dedup(rem_desc) == LinkFragments(sort_unstable(captures_iter(rem_desc)))

find_links(rem_desc) == LinkFragments(dedup(sort_unstable(captures_iter(rem_desc))))

\* KhalEvent::formatted_title
formatted_title(event) ==
  IF event.repeat_symbol = <<>> THEN event.title
  ELSE event.title \o <<" ">> \o event.repeat_symbol

RECURSIVE stripped_desc(_, _)
\* the fold of replace_all over strip_regexes, starting from the description
stripped_desc(regexes, d) ==
  IF regexes = <<>> THEN d
  ELSE stripped_desc(Tail(regexes), ReplaceAll(d, Head(regexes)))

\* the kept prefix cut after n code points instead of n grapheme clusters
kept_prefix_chars(desc, n) == Take(desc, n)

\* desc_graphemes.by_ref().take(desc_chars).collect::<String>()
kept_prefix(desc, n) == Concat(Take(Graphemes(desc), n))

\* desc_graphemes.by_ref().skip(desc_chars).collect(), after take(desc_chars) has
\* advanced the same iterator past its first desc_chars clusters
rem_desc_of(desc, n) == Concat(Drop(Drop(Graphemes(desc), n), n))

ELLIPSIS == <<".", ".", ".">>

\* the truncated short_desc: the kept prefix, "...", then each link found
Truncated(desc, kept, rem, links) ==
  [stripped |-> desc, truncated |-> TRUE, kept |-> kept, rem_desc |-> rem, links |-> links,
   short_desc |-> kept \o ELLIPSIS \o Concat(links)]

\* the value of short_desc at the end of its let, with the parts it was built from
short_desc_of(desc, n) ==
  IF n < ByteLen(desc)
  THEN Truncated(desc, kept_prefix(desc, n), rem_desc_of(desc, n), find_links(rem_desc_of(desc, n)))
  ELSE [stripped |-> desc, truncated |-> FALSE, kept |-> desc, rem_desc |-> <<>>,
        links |-> <<>>, short_desc |-> desc]

\* short_desc after the time-range suffix is added
with_time_range(event, sd) ==
  IF ~event.all_day
  THEN (IF sd # <<>> /\ sd[Len(sd)] = LF THEN sd ELSE sd \o <<LF>>) \o event.start_end_time_style
  ELSE sd

\* the arguments of notify-send, with the parts the body was built from
NotifyArgs(event, r) ==
  [formatted |-> TRUE, title |-> formatted_title(event), stripped |-> r.stripped,
   truncated |-> r.truncated, kept |-> r.kept, rem_desc |-> r.rem_desc,
   links |-> r.links, short_desc |-> r.short_desc,
   body |-> with_time_range(event, r.short_desc)]

\* what one thread computes before it runs notify-send
FormatEvent(event, regexes, n) ==
  NotifyArgs(event, short_desc_of(stripped_desc(regexes, event.description), n))

NotFormatted ==
  [formatted |-> FALSE, title |-> <<>>, stripped |-> <<>>, truncated |-> FALSE,
   kept |-> <<>>, rem_desc |-> <<>>, links |-> <<>>, short_desc |-> <<>>, body |-> <<>>]

(***************************************************************************)
(* Argument parsing.                                                       *)
(***************************************************************************)
RECURSIVE DecimalValue(_, _)
DecimalValue(ds, acc) ==
  IF ds = <<>> THEN acc ELSE DecimalValue(Tail(ds), acc * 10 + (Utf8[Head(ds)][1] - 48))

IsDecimal(ds) == ds # <<>> /\ \A i \in 1..Len(ds) : ds[i] \in Digits

\* str::parse::<uN>(): an optional "+", then digits, the value below 2^bits
ParseUnsigned(s, bits) ==
  LET ds == IF s # <<>> /\ Head(s) = "+" THEN Tail(s) ELSE s
  IN  IF IsDecimal(ds) /\ DecimalValue(ds, 0) < 2 ^ bits
      THEN [ok |-> TRUE, val |-> DecimalValue(ds, 0)]
      ELSE [ok |-> FALSE, val |-> 0]

I8_MIN == -128
I8_MAX == 127

\* str::parse::<i8>(): an optional sign, then digits, the value in i8's range
ParseI8(s) ==
  LET signed == s # <<>> /\ Head(s) \in {"+", "-"}
      ds == IF signed THEN Tail(s) ELSE s
      v == IF signed /\ Head(s) = "-" THEN 0 - DecimalValue(ds, 0) ELSE DecimalValue(ds, 0)
  IN  IF IsDecimal(ds) /\ v >= I8_MIN /\ v <= I8_MAX
      THEN [ok |-> TRUE, val |-> v]
      ELSE [ok |-> FALSE, val |-> 0]

SECONDS_PER_HOUR == 3600
\* UtcOffset::hours(h): any i8 is accepted
UtcOffsetHours(h) == h * SECONDS_PER_HOUR

IsLeap(y) == y % 4 = 0 /\ (y % 100 # 0 \/ y % 400 = 0)
DaysInMonth(y, m) ==
  IF m = 2 THEN (IF IsLeap(y) THEN 29 ELSE 28)
  ELSE IF m \in {4, 6, 9, 11} THEN 30 ELSE 31

\* PrimitiveDateTime::parse(at, "%F %R"): YYYY-MM-DD HH:MM
ParseDateTime(s) ==
  LET num(i, j) == DecimalValue(SubSeq(s, i, j), 0)
      shape == /\ Len(s) = 16
               /\ \A i \in {1, 2, 3, 4, 6, 7, 9, 10, 12, 13, 15, 16} : s[i] \in Digits
               /\ s[5] = "-" /\ s[8] = "-" /\ s[11] = " " /\ s[14] = ":"
  IN  IF /\ shape
         /\ num(6, 7) \in 1..12
         /\ num(9, 10) \in 1..DaysInMonth(num(1, 4), num(6, 7))
         /\ num(12, 13) \in 0..23
         /\ num(15, 16) \in 0..59
      THEN [ok |-> TRUE, local |-> <<num(1, 4), num(6, 7), num(9, 10), num(12, 13), num(15, 16)>>]
      ELSE [ok |-> FALSE, local |-> <<>>]

(***************************************************************************)
(* The state of one run.                                                   *)
(***************************************************************************)
VARIABLES
  matches,        \* the command line as clap returns it
  now,            \* OffsetDateTime::now_utc(), seconds since the epoch
  khal,           \* what running khal gives: its status and the events it prints
  pc,             \* where the main thread is
  panic_msg,      \* the message the main thread panicked with, "" if it did not
  desc_chars, utc_offset, strip_regexes, target, events,   \* locals of main
  khal_invoked,   \* whether Command::new("khal") was run
  thread,         \* per spawned thread: "running", "waiting", "done", "panicked"
  notify,         \* per spawned thread: what it formatted and gave to notify-send
  joined          \* number of handles joined so far

vars == <<matches, now, khal, pc, panic_msg, desc_chars, utc_offset, strip_regexes,
          target, events, khal_invoked, thread, notify, joined>>

(***************************************************************************)
(* The inputs the runs are drawn from.                                     *)
(***************************************************************************)
RECURSIVE Decimal(_)
\* the decimal numeral of a natural number
Decimal(n) ==
  IF n < 10 THEN <<AsciiPrintable[n + 17]>> ELSE Decimal(n \div 10) \o <<AsciiPrintable[(n % 10) + 17]>>

\* the defaults of the command line
MINUTE_OFFSET == <<"1", "0">>
DESC_CHARS == <<"2", "0", "0">>
UTC_OFFSET_DEFAULT == <<"+", "9">>

U64_LIMIT == 2 ^ U64_BITS

AtTokens ==
  { MINUTE_OFFSET, <<"0">>, <<"x">>, <<"-", "1">>,
    Decimal((U64_LIMIT - 1) \div 60), Decimal((U64_LIMIT - 1) \div 60 + 1),
    Decimal(U64_LIMIT - 1), Decimal(U64_LIMIT),
    <<"2", "0", "2", "1", "-", "0", "3", "-", "0", "4", " ", "1", "0", ":", "3", "0">>,
    <<"2", "0", "2", "1", "-", "0", "2", "-", "3", "0", " ", "1", "0", ":", "3", "0">>,
    <<"1", "0", ":", "3", "0">> }

UtcTokens ==
  { UTC_OFFSET_DEFAULT, <<"0">>, <<"2", "4">>, <<"-", "2", "4">>, <<"2", "5">>,
    <<"-", "1", "0", "0">>, <<"1", "2", "7">>, <<"1", "2", "8">>, <<"-", "1", "2", "9">>,
    <<"x">> }

DescTokens == {Decimal(n) : n \in 0..MaxBudget} \cup {<<"x">>, DESC_CHARS}

StripLists == { <<>>, << <<" ">> >>, << <<"(">>, <<"a">> >> }

Nows == {0, 86400}

Pieces ==
  { <<"a", ".", "b", " ">>, <<"b", ".", "a", " ">>, <<" ">>, <<EUR>>, <<"a", ACUTE>>,
    <<"h", "t", "t", "p", ":", "/", "/">> }

RECURSIVE TextsOf(_)
\* the concatenations of at most k pieces
TextsOf(k) ==
  IF k = 0 THEN {<<>>}
  ELSE LET shorter == TextsOf(k - 1)
       IN  shorter \cup {t \o p : t \in shorter, p \in Pieces}

Texts == TextsOf(MaxPieces)

TIME_RANGE == <<"9", "-", "1", "0">>

\* the i-th event of a calendar: every second one recurs
EventAt(i, desc, all_day) ==
  [title |-> <<"e">> \o Decimal(i), description |-> desc, start_end_time_style |-> TIME_RANGE,
   repeat_symbol |-> IF i % 2 = 0 THEN <<"R">> ELSE <<>>, all_day |-> all_day]

\* calendars of up to MaxEvents events, all-day or not
EventLists ==
  UNION { { [i \in 1..n |-> EventAt(i, <<"a", ".", "b">>, flags[i])] : flags \in [1..n -> BOOLEAN] }
          : n \in 0..MaxEvents }

Matches(at, len, all, utc, strip) ==
  [at |-> at, desc_length |-> len, include_all_day |-> all, utc_offset |-> utc,
   strip_regex |-> strip]

KhalOk(evs) == [status |-> "ok", events |-> evs]

\* runs that vary the time arguments, over one calendar or a failing khal
TimeRuns ==
  LET ms == {Matches(at, DESC_CHARS, FALSE, UTC_OFFSET_DEFAULT, <<>>) : at \in AtTokens}
            \cup {Matches(MINUTE_OFFSET, DESC_CHARS, FALSE, utc, <<>>) : utc \in UtcTokens}
      ks == { KhalOk(<<EventAt(1, <<" ">>, FALSE), EventAt(2, <<"a">>, TRUE)>>),
              [status |-> "missing", events |-> <<>>],
              [status |-> "malformed", events |-> <<>>] }
  IN  {[matches |-> m, now |-> t, khal |-> k] : m \in ms, t \in Nows, k \in ks}

\* runs that vary the description, its budget and the strip patterns
FormatRuns ==
  {[matches |-> Matches(MINUTE_OFFSET, len, FALSE, UTC_OFFSET_DEFAULT, strip), now |-> 0,
    khal |-> KhalOk(<<EventAt(1, text, FALSE)>>)]
     : len \in DescTokens, strip \in StripLists, text \in Texts}

\* runs that vary the calendar and --all-day
DispatchRuns ==
  {[matches |-> Matches(MINUTE_OFFSET, Decimal(MaxBudget), all, UTC_OFFSET_DEFAULT, <<>>),
    now |-> 0, khal |-> KhalOk(evs)]
     : all \in BOOLEAN, evs \in EventLists}

Runs == TimeRuns \cup FormatRuns \cup DispatchRuns

NoTarget == [set |-> FALSE, local |-> <<>>, secs |-> 0, offset |-> 0]

Init ==
  /\ \E r \in Runs : matches = r.matches /\ now = r.now /\ khal = r.khal
  /\ pc = "args"
  /\ panic_msg = ""
  /\ desc_chars = 0
  /\ utc_offset = 0
  /\ strip_regexes = <<>>
  /\ target = NoTarget
  /\ events = <<>>
  /\ khal_invoked = FALSE
  /\ thread = <<>>
  /\ notify = <<>>
  /\ joined = 0

(***************************************************************************)
(* The main thread.                                                        *)
(***************************************************************************)
\* a panic of the main thread ends the process
MainPanics(msg) ==
  /\ pc' = "panicked"
  /\ panic_msg' = msg

Terminated == pc \in {"exited", "panicked"}

\* values_of("strip regex").map(|i| i.map(Regex::new).flatten().collect()):
\* flatten() over the Results keeps the Ok regexes and drops the Errs
strip_regexes_of(patterns) ==
  LET compiled == [i \in 1..Len(patterns) |-> RegexNew(patterns[i])]
      oks == SelectSeq(compiled, LAMBDA r : r.ok)
  IN  [i \in 1..Len(oks) |-> oks[i].lit]

\* the arguments are read: description length (a usize, as wide as the u64),
\* UTC offset, strip patterns
ParseArgs ==
  /\ pc = "args"
  /\ LET len == ParseUnsigned(matches.desc_length, U64_BITS)
         hours == ParseI8(matches.utc_offset)
     IN  IF ~len.ok
         THEN /\ MainPanics("description length is not a number")
              /\ UNCHANGED <<desc_chars, utc_offset, strip_regexes>>
         ELSE IF ~hours.ok
         THEN /\ MainPanics("utc offset of unexpected format")
              /\ UNCHANGED <<desc_chars, utc_offset, strip_regexes>>
         ELSE /\ desc_chars' = len.val
              /\ utc_offset' = UtcOffsetHours(hours.val)
              /\ strip_regexes' = strip_regexes_of(matches.strip_regex)
              /\ pc' = "target"
              /\ UNCHANGED panic_msg
  /\ UNCHANGED <<matches, now, khal, target, events, khal_invoked, thread, notify, joined>>

IsAbsolute(at) == ":" \in Range(at) \/ " " \in Range(at)

\* the target time: an absolute date-time, or now plus a number of minutes.
\* The product by 60 is a u64 product: where it overflows, a build with overflow
\* checks panics and a build without them wraps.
ResolveTarget ==
  /\ pc = "target"
  /\ IF IsAbsolute(matches.at)
     THEN LET dt == ParseDateTime(matches.at)
          IN  IF dt.ok
              THEN /\ target' = [set |-> TRUE, local |-> dt.local, secs |-> 0, offset |-> utc_offset]
                   /\ pc' = "fetch"
                   /\ UNCHANGED panic_msg
              ELSE /\ MainPanics("datetime offset of unexpected format")
                   /\ UNCHANGED target
     ELSE LET m == ParseUnsigned(matches.at, U64_BITS)
          IN  IF ~m.ok
              THEN /\ MainPanics("offset is not a number")
                   /\ UNCHANGED target
              ELSE \E overflow_checks \in BOOLEAN :
                     IF overflow_checks /\ m.val * 60 >= U64_LIMIT
                     THEN /\ MainPanics("attempt to multiply with overflow")
                          /\ UNCHANGED target
                     ELSE /\ target' = [set |-> TRUE, local |-> <<>>,
                                        secs |-> now + ((m.val * 60) % U64_LIMIT),
                                        offset |-> utc_offset]
                          /\ pc' = "fetch"
                          /\ UNCHANGED panic_msg
  /\ UNCHANGED <<matches, now, khal, desc_chars, utc_offset, strip_regexes, events,
                 khal_invoked, thread, notify, joined>>

\* the filter left out
filter_events_none(evs, include_all_day) == evs

\* if !include_all_day { events = events.into_iter().filter(|e| !e.is_all_day()).collect() }
filter_events(evs, include_all_day) ==
  IF ~include_all_day THEN SelectSeq(evs, LAMBDA e : ~e.all_day) ELSE evs

\* khal is run, its output parsed, the all-day events dropped
FetchEvents ==
  /\ pc = "fetch"
  /\ khal_invoked' = TRUE
  /\ IF khal.status = "missing"
     THEN /\ MainPanics("could not execute khal")
          /\ UNCHANGED events
     ELSE IF khal.status = "malformed"
     THEN /\ MainPanics("khal output of unexpected format")
          /\ UNCHANGED events
     ELSE /\ events' = filter_events(khal.events, matches.include_all_day)
          /\ pc' = "dispatch"
          /\ UNCHANGED panic_msg
  /\ UNCHANGED <<matches, now, khal, desc_chars, utc_offset, strip_regexes, target,
                 thread, notify, joined>>

\* one iteration of `for event in events`: a thread is spawned for the next event
SpawnThread ==
  /\ pc = "dispatch"
  /\ Len(thread) < Len(events)
  /\ thread' = Append(thread, "running")
  /\ notify' = Append(notify, NotFormatted)
  /\ UNCHANGED <<matches, now, khal, pc, panic_msg, desc_chars, utc_offset, strip_regexes,
                 target, events, khal_invoked, joined>>

\* one iteration of handles.into_iter().for_each(join().expect(..)): join blocks
\* until the thread has ended, and the expect panics if the thread panicked
JoinThread ==
  /\ pc = "dispatch"
  /\ Len(thread) = Len(events)
  /\ joined < Len(thread)
  /\ thread[joined + 1] \in {"done", "panicked"}
  /\ IF thread[joined + 1] = "done"
     THEN /\ joined' = joined + 1
          /\ UNCHANGED <<pc, panic_msg>>
     ELSE /\ MainPanics("failed to join notify thread")
          /\ UNCHANGED joined
  /\ UNCHANGED <<matches, now, khal, desc_chars, utc_offset, strip_regexes, target, events,
                 khal_invoked, thread, notify>>

\* main returns once every handle is joined
MainReturns ==
  /\ pc = "dispatch"
  /\ Len(thread) = Len(events)
  /\ joined = Len(thread)
  /\ pc' = "exited"
  /\ UNCHANGED <<matches, now, khal, panic_msg, desc_chars, utc_offset, strip_regexes, target,
                 events, khal_invoked, thread, notify, joined>>

(***************************************************************************)
(* The thread of event i.  It runs only while the process lives.           *)
(***************************************************************************)
\* the event is formatted and notify-send is spawned, or cannot be
ThreadNotify(i) ==
  /\ ~Terminated
  /\ thread[i] = "running"
  /\ notify' = [notify EXCEPT ![i] = FormatEvent(events[i], strip_regexes, desc_chars)]
  /\ \E spawned \in BOOLEAN :
       thread' = [thread EXCEPT ![i] = IF spawned THEN "waiting" ELSE "panicked"]
  /\ UNCHANGED <<matches, now, khal, pc, panic_msg, desc_chars, utc_offset, strip_regexes,
                 target, events, khal_invoked, joined>>

\* wait() on notify-send returns, or fails
ThreadWait(i) ==
  /\ ~Terminated
  /\ thread[i] = "waiting"
  /\ \E waited \in BOOLEAN :
       thread' = [thread EXCEPT ![i] = IF waited THEN "done" ELSE "panicked"]
  /\ UNCHANGED <<matches, now, khal, pc, panic_msg, desc_chars, utc_offset, strip_regexes,
                 target, events, khal_invoked, notify, joined>>

Next ==
  \/ ParseArgs
  \/ ResolveTarget
  \/ FetchEvents
  \/ SpawnThread
  \/ JoinThread
  \/ MainReturns
  \/ \E i \in 1..Len(thread) : ThreadNotify(i)
  \/ \E i \in 1..Len(thread) : ThreadWait(i)

Spec == Init /\ [][Next]_vars

(***************************************************************************)
(* Properties.                                                             *)
(***************************************************************************)
\* thread i has run notify-send, or tried to
Attempted(i) == i <= Len(thread) /\ thread[i] # "running"

\* khal's events were fetched and filtered
Fetched == pc \in {"dispatch", "exited"} \/ panic_msg = "failed to join notify thread"

IsPrefix(a, b) == Len(a) <= Len(b) /\ SubSeq(b, 1, Len(a)) = a

\* sub is full with some elements left out, the order kept
IsOrderedSelection(sub, full) ==
  \E f \in [1..Len(sub) -> 1..Len(full)] :
    /\ \A k \in 1..Len(sub) : sub[k] = full[f[k]]
    /\ \A k \in 1..(Len(sub) - 1) : f[k] < f[k + 1]

\* C1: when the run has terminated, every one of the surviving events' tasks has
\* completed or failed, also those after a failed task in the handle list.
C1_FanInBarrier ==
  Terminated =>
    \A i \in 1..Len(events) : i <= Len(thread) /\ thread[i] \in {"done", "panicked"}

\* C2: when the run has terminated, a notifier invocation has been attempted for
\* each of the N surviving events, exactly N in all, whichever tasks failed.
C2_SiblingIsolation ==
  Terminated => Cardinality({i \in 1..Len(events) : Attempted(i)}) = Len(events)

\* C3: if the cleaned description has at most desc_chars grapheme clusters, the
\* body before the time-range suffix is the cleaned description unchanged, with
\* no ellipsis and no link fragments.
C3_NoTruncation ==
  \A i \in 1..Len(notify) :
    (notify[i].formatted /\ Len(Graphemes(notify[i].stripped)) <= desc_chars) =>
      /\ notify[i].short_desc = notify[i].stripped
      /\ notify[i].links = <<>>
      /\ ~notify[i].truncated

\* C4: if the cleaned description has more than desc_chars grapheme clusters, the
\* text scanned for links is the clusters after the first desc_chars, and the
\* fragments after the ellipsis are the links matched in that text.
C4_LinksFromRemainder ==
  \A i \in 1..Len(notify) :
    (notify[i].formatted /\ Len(Graphemes(notify[i].stripped)) > desc_chars) =>
      /\ notify[i].rem_desc = Concat(Drop(Graphemes(notify[i].stripped), desc_chars))
      /\ notify[i].links = find_links(Concat(Drop(Graphemes(notify[i].stripped), desc_chars)))
      /\ notify[i].short_desc = notify[i].kept \o ELLIPSIS \o Concat(notify[i].links)

\* C5: the kept prefix of the body is made of exactly min(desc_chars, total) whole
\* grapheme clusters of the cleaned description, the first ones, whether or not
\* the description was truncated.
C5_GraphemeSafePrefix ==
  \A i \in 1..Len(notify) :
    notify[i].formatted =>
      /\ Graphemes(notify[i].kept) =
           SubSeq(Graphemes(notify[i].stripped), 1,
                  Min(desc_chars, Len(Graphemes(notify[i].stripped))))
      /\ IsPrefix(notify[i].kept, notify[i].short_desc)
      /\ IsPrefix(notify[i].kept, notify[i].body)

\* a truncated description whose kept prefix holds a cluster of several code points
C5_Witness ==
  \E i \in 1..Len(notify) :
    /\ notify[i].formatted /\ notify[i].truncated
    /\ desc_chars >= 1
    /\ Len(Graphemes(notify[i].stripped)) > desc_chars
    /\ \E k \in 1..desc_chars : Len(Graphemes(notify[i].stripped)[k]) > 1

\* C6: with a malformed strip pattern among the arguments the run fails at
\* startup: khal is never run, no event is formatted or notified, and the run
\* never goes on to dispatch with the remaining patterns.
C6_PatternErrorsFailFast ==
  (\E k \in 1..Len(matches.strip_regex) : ~RegexNew(matches.strip_regex[k]).ok) =>
    /\ ~khal_invoked
    /\ thread = <<>>
    /\ pc \notin {"dispatch", "exited"}

\* C7: without --all-day no notifier invocation is made for an all-day event, the
\* surviving events are khal's non-all-day events in khal's order, all of them,
\* and filtering the survivors again changes nothing.
C7_AllDayExclusion ==
  (Fetched /\ ~matches.include_all_day) =>
    /\ \A i \in 1..Len(notify) : \A k \in 1..Len(khal.events) :
         (notify[i].formatted /\ khal.events[k].all_day) =>
           notify[i].title # formatted_title(khal.events[k])
    /\ IsOrderedSelection(events, khal.events)
    /\ Len(events) = Cardinality({k \in 1..Len(khal.events) : ~khal.events[k].all_day})
    /\ \A k \in 1..Len(events) : ~events[k].all_day
    /\ filter_events(events, FALSE) = events

\* a finished run without --all-day over an all-day event followed by another event
C7_Witness ==
  /\ pc = "exited"
  /\ ~matches.include_all_day
  /\ \E k \in 1..Len(khal.events) : \E h \in (k + 1)..Len(khal.events) :
       khal.events[k].all_day /\ ~khal.events[h].all_day
  /\ \E i \in 1..Len(notify) : notify[i].formatted

\* the link inside a fragment
UrlOf(fragment) == SubSeq(fragment, 10, Len(fragment) - 6)

\* C8: the fragments find_links returns are those of the distinct links matched in
\* its text, each once, in increasing lexicographic order of the link.
C8_LinksSortedDistinct ==
  \A i \in 1..Len(notify) :
    (notify[i].formatted /\ notify[i].truncated) =>
      /\ \A k \in 1..Len(notify[i].links) :
           notify[i].links[k] = LinkFragment(UrlOf(notify[i].links[k]))
      /\ {UrlOf(f) : f \in Range(notify[i].links)} = Range(captures_iter(notify[i].rem_desc))
      /\ \A k \in 1..(Len(notify[i].links) - 1) :
           StrLess(UrlOf(notify[i].links[k]), UrlOf(notify[i].links[k + 1]))

\* a scanned text whose matches hold a repeated link and are out of order
C8_Witness ==
  \E i \in 1..Len(notify) :
    /\ notify[i].formatted /\ notify[i].truncated
    /\ Cardinality(Range(captures_iter(notify[i].rem_desc))) < Len(captures_iter(notify[i].rem_desc))
    /\ \E k \in 1..(Len(captures_iter(notify[i].rem_desc)) - 1) :
         StrLess(captures_iter(notify[i].rem_desc)[k + 1], captures_iter(notify[i].rem_desc)[k])

\* the target step of main is over, by a target or by a panic
TargetStepDone ==
  \/ pc \in {"fetch", "dispatch", "exited"}
  \/ pc = "panicked" /\ panic_msg \notin {"description length is not a number",
                                          "utc offset of unexpected format"}

\* C9: for a token that parses as a count of minutes m, the target resolved is
\* now plus m minutes, also when m * 60 exceeds the range of the u64.
C9_RelativeTarget ==
  (/\ ~IsAbsolute(matches.at)
   /\ ParseUnsigned(matches.at, U64_BITS).ok
   /\ TargetStepDone) =>
    /\ target.set
    /\ target.secs = now + ParseUnsigned(matches.at, U64_BITS).val * 60

\* the value of a signed decimal numeral, whatever its size
SignedValue(s) ==
  IF Head(s) = "-" THEN 0 - DecimalValue(Tail(s), 0)
  ELSE IF Head(s) = "+" THEN DecimalValue(Tail(s), 0)
  ELSE DecimalValue(s, 0)

IsSignedDecimal(s) ==
  s # <<>> /\ IsDecimal(IF Head(s) \in {"+", "-"} THEN Tail(s) ELSE s)

\* C10: with a UTC offset argument that is a whole number of hours outside
\* -24..24 the resolution of the target fails: no target is ever resolved and
\* khal is never run.
C10_OffsetRange ==
  (IsSignedDecimal(matches.utc_offset) /\ SignedValue(matches.utc_offset) \notin -24..24) =>
    /\ ~target.set
    /\ ~khal_invoked
    /\ pc \notin {"fetch", "dispatch", "exited"}

====
